---------------------------- MODULE Spec2Model ----------------------------
(***************************************************************************)
(* The scoring engine of seemycity-backend (src/scoring.rs): the function  *)
(* calculate_financial_score and the pillar calculators it calls, over     *)
(* exact decimal arithmetic.                                               *)
(*                                                                         *)
(* A Decimal is modelled by its exact value, the fraction <<n, d>> in      *)
(* lowest terms with d > 0, so equality is numeric as Decimal's is.  The   *)
(* amounts drawn stay far inside Decimal's 96-bit range: its overflow and  *)
(* the rounding of a quotient at the 28th digit are not modelled.          *)
(* <<0, 0>> is the value of an operation that panicked (rust_decimal       *)
(* panics on a division by zero).  An Option is a                          *)
(* sequence of length 0 (None) or 1 (Some).  A text is the sequence of its *)
(* tokens: single whitespace characters and maximal runs of other          *)
(* characters, so that equal texts are equal sequences.                    *)
(***************************************************************************)
EXTENDS Integers, Sequences, FiniteSets, TLC

VARIABLES scoring_input, result, pc

(* The tables of the database and the requests being handled *)
VARIABLES municipalities, financial_data, requests

(* The geometry table and the response of the list endpoint *)
VARIABLES municipal_geometries, list_request

(* The response of the upstream API and the results of the fetchers *)
VARIABLES api_response, fetch_results

map_vars == <<municipal_geometries, list_request>>

fetch_vars == <<api_response, fetch_results>>

vars == <<scoring_input, result, pc, municipalities, financial_data, requests,
          map_vars, fetch_vars>>

-----------------------------------------------------------------------------
(* Bounds of the input space.  Amounts are whole multiples of 700 currency *)
(* units, one twentieth of REV_PER_CAPITA_MAX, so that every breakpoint of *)
(* the scoring curves (0.10, 0.30, 0.85, 1.00, 1.10, 1.15, 14000) is hit   *)
(* exactly by some pair of amounts.                                        *)

MaxRevenueK == 3

MaxPopulation == 2

MaxCapexK == 3

MaxPad == 1

-----------------------------------------------------------------------------
(* Option<T> *)

None == <<>>

Some(x) == <<x>>

Unwrap(o) == o[1]

(* a missing value taken as the mid-scale score instead of the default *)
unwrap_or_neutral(o, default) == IF o = None THEN <<50, 1>> ELSE o[1]

unwrap_or(o, default) == IF o = None THEN default ELSE o[1]

-----------------------------------------------------------------------------
(* rust_decimal::Decimal *)

Abs(n) == IF n < 0 THEN -n ELSE n

RECURSIVE GCD(_, _)
GCD(a, b) == IF b = 0 THEN a ELSE GCD(b, a % b)

Panic == <<0, 0>>

Panicked(a) == a[2] = 0

Frac(n, d) ==
    LET g == GCD(Abs(n), Abs(d))
        s == IF d < 0 THEN -1 ELSE 1
    IN  IF d = 0 THEN Panic ELSE <<s * (n \div g), s * (d \div g)>>

RECURSIVE Pow10(_)
Pow10(e) == IF e = 0 THEN 1 ELSE 10 * Pow10(e - 1)

(* dec!(literal): the literal's mantissa and scale, e.g. dec!(0.30) is dec(30, 2) *)
dec(mantissa, scale) == Frac(mantissa, Pow10(scale))

DecFromInt(n) == Frac(n, 1)

ZERO == DecFromInt(0)

DAdd(a, b) ==
    IF Panicked(a) \/ Panicked(b) THEN Panic
    ELSE Frac(a[1] * b[2] + b[1] * a[2], a[2] * b[2])

DSub(a, b) ==
    IF Panicked(a) \/ Panicked(b) THEN Panic
    ELSE Frac(a[1] * b[2] - b[1] * a[2], a[2] * b[2])

DMul(a, b) ==
    IF Panicked(a) \/ Panicked(b) THEN Panic
    ELSE Frac(a[1] * b[1], a[2] * b[2])

(* Decimal's Div panics when the divisor is zero *)
DDiv(a, b) ==
    IF Panicked(a) \/ Panicked(b) \/ b[1] = 0 THEN Panic
    ELSE Frac(a[1] * b[2], a[2] * b[1])

DLt(a, b) == a[1] * b[2] < b[1] * a[2]

DLe(a, b) == a[1] * b[2] <= b[1] * a[2]

DGt(a, b) == DLt(b, a)

DGe(a, b) == DLe(b, a)

DMax(a, b) == IF DLt(a, b) THEN b ELSE a

DClamp(x, lo, hi) ==
    IF Panicked(x) THEN Panic
    ELSE IF DLt(x, lo) THEN lo
    ELSE IF DGt(x, hi) THEN hi
    ELSE x

-----------------------------------------------------------------------------
(* Constants of scoring.rs *)

(* the financial-health weight before its correction to 0.30 *)
WEIGHT_FIN_HEALTH_uncorrected == dec(35, 2)

WEIGHT_FIN_HEALTH == dec(30, 2)

WEIGHT_INFRA == dec(25, 2)

(* the efficiency weight before its correction to 0.25 *)
WEIGHT_EFFICIENCY_uncorrected == dec(20, 2)

WEIGHT_EFFICIENCY == dec(25, 2)

WEIGHT_ACCOUNTABILITY == dec(20, 2)

REV_PER_CAPITA_MIN == dec(0, 1)

(* a ceiling above the code's *)
REV_PER_CAPITA_MAX_raised == dec(200000, 1)
REV_PER_CAPITA_MAX == dec(140000, 1)

DEBT_RATIO_MIN == dec(1, 1)

(* a ceiling above the code's *)
DEBT_RATIO_MAX_raised == dec(15, 1)
DEBT_RATIO_MAX == dec(10, 1)

EFFICIENCY_RATIO_BEST == dec(85, 2)

(* the mid-point at breakeven, as the comments of calculate_efficiency_score have it *)
EFFICIENCY_RATIO_MID_breakeven == dec(100, 2)

EFFICIENCY_RATIO_MID == dec(110, 2)

EFFICIENCY_RATIO_WORST == dec(115, 2)

INFRA_RATIO_WORST == dec(0, 2)

(* the mid-point the doc comment of calculate_infra_score names *)
INFRA_RATIO_MID_documented == dec(15, 2)

INFRA_RATIO_MID == dec(10, 2)

(* a best ratio above the code's *)
INFRA_RATIO_BEST_raised == dec(40, 2)
INFRA_RATIO_BEST == dec(30, 2)

WEIGHT_REV_PER_CAP == dec(5, 1)

WEIGHT_DEBT_RATIO == dec(5, 1)

-----------------------------------------------------------------------------
(* AuditOutcome and its From<&str>.  A text is a sequence of tokens. *)

IsWhitespace(tok) == tok \in {" ", "\t", "\n"}

RECURSIVE TrimStart(_)
TrimStart(s) ==
    IF s # <<>> /\ IsWhitespace(Head(s)) THEN TrimStart(Tail(s)) ELSE s

RECURSIVE TrimEnd(_)
TrimEnd(s) ==
    IF s # <<>> /\ IsWhitespace(s[Len(s)])
    THEN TrimEnd(SubSeq(s, 1, Len(s) - 1))
    ELSE s

(* str::trim *)
Trim(s) == TrimEnd(TrimStart(s))

(* the match taken on the text as given, without str::trim *)
AuditOutcomeFrom_untrimmed(s) ==
    LET t == s IN
    IF t = <<"Unqualified", " ", "-", " ", "No", " ", "findings">>
        THEN [variant |-> "Clean"]
    ELSE IF t = <<"Unqualified", " ", "-", " ", "Emphasis", " ", "of", " ", "Matter", " ", "items">>
        THEN [variant |-> "FinanciallyUnqualified"]
    ELSE IF t = <<"Qualified">> THEN [variant |-> "Qualified"]
    ELSE IF t = <<"Adverse">> THEN [variant |-> "Adverse"]
    ELSE IF t = <<"Disclaimer">> THEN [variant |-> "Disclaimer"]
    ELSE IF t = <<"Outstanding">> THEN [variant |-> "Unknown", text |-> s]
    ELSE [variant |-> "Unknown", text |-> s]

AuditOutcomeFrom(s) ==
    LET t == Trim(s) IN
    IF t = <<"Unqualified", " ", "-", " ", "No", " ", "findings">>
        THEN [variant |-> "Clean"]
    ELSE IF t = <<"Unqualified", " ", "-", " ", "Emphasis", " ", "of", " ", "Matter", " ", "items">>
        THEN [variant |-> "FinanciallyUnqualified"]
    ELSE IF t = <<"Qualified">> THEN [variant |-> "Qualified"]
    ELSE IF t = <<"Adverse">> THEN [variant |-> "Adverse"]
    ELSE IF t = <<"Disclaimer">> THEN [variant |-> "Disclaimer"]
    ELSE IF t = <<"Outstanding">> THEN [variant |-> "Unknown", text |-> s]
    ELSE [variant |-> "Unknown", text |-> s]

-----------------------------------------------------------------------------
(* Utility and pillar functions of scoring.rs.  A function whose division  *)
(* panicked yields Some(Panic): the panic unwinds through its callers.     *)

clamp_score(score) == DClamp(score, ZERO, dec(1000, 1))

(* the sub-score scaled but clamped neither as a fraction nor as a score *)
calculate_rev_per_cap_subscore_unclamped(revenue_opt, population_opt) ==
    IF revenue_opt = None THEN None
    ELSE IF population_opt = None \/ ~(Unwrap(population_opt) > 0) THEN None
    ELSE
    LET rev_per_capita == DDiv(Unwrap(revenue_opt), DecFromInt(Unwrap(population_opt)))
        range == DSub(REV_PER_CAPITA_MAX, REV_PER_CAPITA_MIN)
        normalized_value == DDiv(DSub(rev_per_capita, REV_PER_CAPITA_MIN), range)
    IN  Some(DMul(normalized_value, dec(1000, 1)))

calculate_rev_per_cap_subscore(revenue_opt, population_opt) ==
    IF revenue_opt = None THEN None
    ELSE IF population_opt = None \/ ~(Unwrap(population_opt) > 0) THEN None
    ELSE
    LET revenue == Unwrap(revenue_opt)
        population == Unwrap(population_opt)
        population_dec == DecFromInt(population)
        rev_per_capita == DDiv(revenue, population_dec)
        range == DSub(REV_PER_CAPITA_MAX, REV_PER_CAPITA_MIN)
        normalized_value ==
            DClamp(DDiv(DSub(rev_per_capita, REV_PER_CAPITA_MIN), range),
                   ZERO, dec(10, 1))
        score == DMul(normalized_value, dec(1000, 1))
    IN  IF Panicked(rev_per_capita) THEN Some(Panic)
        ELSE IF DLe(range, ZERO)
        THEN Some(IF DGe(rev_per_capita, REV_PER_CAPITA_MAX)
                  THEN dec(1000, 1) ELSE ZERO)
        ELSE Some(clamp_score(score))

(* the debt ratio taken without the check that revenue is positive *)
calculate_debt_ratio_subscore_unguarded(debt_opt, revenue_opt) ==
    IF debt_opt = None THEN None
    ELSE IF revenue_opt = None THEN None
    ELSE
    LET debt_ratio == DDiv(Unwrap(debt_opt), Unwrap(revenue_opt))
        range == DSub(DEBT_RATIO_MAX, DEBT_RATIO_MIN)
        normalized_position ==
            DClamp(DDiv(DSub(debt_ratio, DEBT_RATIO_MIN), range),
                   ZERO, dec(10, 1))
        score == DMul(DSub(dec(10, 1), normalized_position), dec(1000, 1))
    IN  IF Panicked(debt_ratio) THEN Some(Panic)
        ELSE Some(clamp_score(score))

(* the position in the range taken as the score, without inverting it *)
calculate_debt_ratio_subscore_uninverted(debt_opt, revenue_opt) ==
    IF debt_opt = None THEN None
    ELSE IF revenue_opt = None \/ ~DGt(Unwrap(revenue_opt), ZERO) THEN None
    ELSE
    LET debt_ratio == DDiv(Unwrap(debt_opt), Unwrap(revenue_opt))
        range == DSub(DEBT_RATIO_MAX, DEBT_RATIO_MIN)
        normalized_position ==
            DClamp(DDiv(DSub(debt_ratio, DEBT_RATIO_MIN), range),
                   ZERO, dec(10, 1))
    IN  Some(clamp_score(DMul(normalized_position, dec(1000, 1))))

calculate_debt_ratio_subscore(debt_opt, revenue_opt) ==
    IF debt_opt = None THEN None
    ELSE IF revenue_opt = None \/ ~DGt(Unwrap(revenue_opt), ZERO) THEN None
    ELSE
    LET debt == Unwrap(debt_opt)
        revenue == Unwrap(revenue_opt)
        debt_ratio == DDiv(debt, revenue)
        range == DSub(DEBT_RATIO_MAX, DEBT_RATIO_MIN)
        normalized_position ==
            DClamp(DDiv(DSub(debt_ratio, DEBT_RATIO_MIN), range),
                   ZERO, dec(10, 1))
        score == DMul(DSub(dec(10, 1), normalized_position), dec(1000, 1))
    IN  IF Panicked(debt_ratio) THEN Some(Panic)
        ELSE IF DLe(range, ZERO)
        THEN Some(IF DLe(debt_ratio, DEBT_RATIO_MIN)
                  THEN dec(1000, 1) ELSE ZERO)
        ELSE Some(clamp_score(score))

(* a missing sub-score counted as 0 instead of making the pillar None *)
calculate_fin_health_score_partial(revenue_opt, debt_opt, population_opt) ==
    LET rev_per_cap_opt == calculate_rev_per_cap_subscore(revenue_opt, population_opt)
        debt_ratio_opt == calculate_debt_ratio_subscore(debt_opt, revenue_opt)
    IN  IF rev_per_cap_opt = None /\ debt_ratio_opt = None THEN None
        ELSE Some(DAdd(DMul(unwrap_or(rev_per_cap_opt, ZERO), WEIGHT_REV_PER_CAP),
                       DMul(unwrap_or(debt_ratio_opt, ZERO), WEIGHT_DEBT_RATIO)))

calculate_fin_health_score(revenue_opt, debt_opt, population_opt) ==
    LET rev_per_cap_opt == calculate_rev_per_cap_subscore(revenue_opt, population_opt)
        debt_ratio_opt == calculate_debt_ratio_subscore(debt_opt, revenue_opt)
    IN  IF rev_per_cap_opt = None THEN None
        ELSE IF Panicked(Unwrap(rev_per_cap_opt)) THEN Some(Panic)
        ELSE IF debt_ratio_opt = None THEN None
        ELSE LET rev_per_cap_score == Unwrap(rev_per_cap_opt)
                 debt_ratio_score == Unwrap(debt_ratio_opt)
                 weighted_score ==
                     DAdd(DMul(rev_per_cap_score, WEIGHT_REV_PER_CAP),
                          DMul(debt_ratio_score, WEIGHT_DEBT_RATIO))
             IN  Some(weighted_score)

(* None for a total expenditure of zero or less, as the doc comment says *)
calculate_infra_score_documented(operational_expenditure_opt, capex_opt) ==
    IF operational_expenditure_opt = None THEN None
    ELSE IF capex_opt = None THEN None
    ELSE
    LET opex == Unwrap(operational_expenditure_opt)
        capex == Unwrap(capex_opt)
        total_expenditure == DAdd(opex, capex)
        valid_capex == DMax(capex, ZERO)
        capex_ratio == DDiv(valid_capex, total_expenditure)
        score ==
            IF DLe(capex_ratio, INFRA_RATIO_WORST) THEN dec(0, 1)
            ELSE IF DLt(capex_ratio, INFRA_RATIO_MID) THEN
                LET range == DSub(INFRA_RATIO_MID, INFRA_RATIO_WORST) IN
                IF DGt(range, ZERO)
                THEN DMul(DDiv(dec(500, 1), range),
                          DSub(capex_ratio, INFRA_RATIO_WORST))
                ELSE dec(0, 1)
            ELSE IF DLt(capex_ratio, INFRA_RATIO_BEST) THEN
                LET score_mid_point == dec(500, 1)
                    range == DSub(INFRA_RATIO_BEST, INFRA_RATIO_MID)
                IN  IF DGt(range, ZERO)
                    THEN DAdd(score_mid_point,
                              DDiv(DMul(DSub(dec(1000, 1), score_mid_point),
                                        DSub(capex_ratio, INFRA_RATIO_MID)),
                                   range))
                    ELSE score_mid_point
            ELSE dec(1000, 1)
    IN  IF DLe(total_expenditure, ZERO) THEN None
        ELSE IF Panicked(capex_ratio) THEN Some(Panic)
        ELSE Some(clamp_score(score))

calculate_infra_score(operational_expenditure_opt, capex_opt) ==
    IF operational_expenditure_opt = None THEN None
    ELSE IF capex_opt = None THEN None
    ELSE
    LET opex == Unwrap(operational_expenditure_opt)
        capex == Unwrap(capex_opt)
        total_expenditure == DAdd(opex, capex)
        valid_capex == DMax(capex, ZERO)
        capex_ratio == DDiv(valid_capex, total_expenditure)
        score ==
            IF DLe(capex_ratio, INFRA_RATIO_WORST) THEN dec(0, 1)
            ELSE IF DLt(capex_ratio, INFRA_RATIO_MID) THEN
                LET range == DSub(INFRA_RATIO_MID, INFRA_RATIO_WORST) IN
                IF DGt(range, ZERO)
                THEN DMul(DDiv(dec(500, 1), range),
                          DSub(capex_ratio, INFRA_RATIO_WORST))
                ELSE dec(0, 1)
            ELSE IF DLt(capex_ratio, INFRA_RATIO_BEST) THEN
                LET score_mid_point == dec(500, 1)
                    range == DSub(INFRA_RATIO_BEST, INFRA_RATIO_MID)
                IN  IF DGt(range, ZERO)
                    THEN DAdd(score_mid_point,
                              DDiv(DMul(DSub(dec(1000, 1), score_mid_point),
                                        DSub(capex_ratio, INFRA_RATIO_MID)),
                                   range))
                    ELSE score_mid_point
            ELSE dec(1000, 1)
    IN  IF DLe(total_expenditure, ZERO) THEN Some(ZERO)
        ELSE IF Panicked(capex_ratio) THEN Some(Panic)
        ELSE Some(clamp_score(score))

(* the expenditure ratio taken without the check that revenue is positive *)
calculate_efficiency_score_unguarded(operational_expenditure_opt, revenue_opt) ==
    IF operational_expenditure_opt = None THEN None
    ELSE IF revenue_opt = None THEN None
    ELSE
    LET opex == Unwrap(operational_expenditure_opt)
        revenue == Unwrap(revenue_opt)
        opex_ratio == DDiv(opex, revenue)
        upper_range == DSub(EFFICIENCY_RATIO_MID, EFFICIENCY_RATIO_BEST)
        lower_range == DSub(EFFICIENCY_RATIO_WORST, EFFICIENCY_RATIO_MID)
        score_mid_point == dec(500, 1)
        score_max_point == dec(1000, 1)
        score ==
            IF DLe(opex_ratio, EFFICIENCY_RATIO_BEST) THEN score_max_point
            ELSE IF DLe(opex_ratio, EFFICIENCY_RATIO_MID) THEN
                IF DGt(upper_range, ZERO)
                THEN DSub(score_max_point,
                          DDiv(DMul(DSub(score_max_point, score_mid_point),
                                    DSub(opex_ratio, EFFICIENCY_RATIO_BEST)),
                               upper_range))
                ELSE score_mid_point
            ELSE IF DLt(opex_ratio, EFFICIENCY_RATIO_WORST) THEN
                IF DGt(lower_range, ZERO)
                THEN DSub(score_mid_point,
                          DDiv(DMul(score_mid_point,
                                    DSub(opex_ratio, EFFICIENCY_RATIO_MID)),
                               lower_range))
                ELSE dec(0, 1)
            ELSE dec(0, 1)
    IN  IF Panicked(opex_ratio) THEN Some(Panic)
        ELSE Some(clamp_score(score))

calculate_efficiency_score(operational_expenditure_opt, revenue_opt) ==
    IF operational_expenditure_opt = None THEN None
    ELSE IF revenue_opt = None \/ ~DGt(Unwrap(revenue_opt), ZERO) THEN None
    ELSE
    LET opex == Unwrap(operational_expenditure_opt)
        revenue == Unwrap(revenue_opt)
        opex_ratio == DDiv(opex, revenue)
        upper_range == DSub(EFFICIENCY_RATIO_MID, EFFICIENCY_RATIO_BEST)
        lower_range == DSub(EFFICIENCY_RATIO_WORST, EFFICIENCY_RATIO_MID)
        score_mid_point == dec(500, 1)
        score_max_point == dec(1000, 1)
        score ==
            IF DLe(opex_ratio, EFFICIENCY_RATIO_BEST) THEN score_max_point
            ELSE IF DLe(opex_ratio, EFFICIENCY_RATIO_MID) THEN
                IF DGt(upper_range, ZERO)
                THEN DSub(score_max_point,
                          DDiv(DMul(DSub(score_max_point, score_mid_point),
                                    DSub(opex_ratio, EFFICIENCY_RATIO_BEST)),
                               upper_range))
                ELSE score_mid_point
            ELSE IF DLt(opex_ratio, EFFICIENCY_RATIO_WORST) THEN
                IF DGt(lower_range, ZERO)
                THEN DSub(score_mid_point,
                          DDiv(DMul(score_mid_point,
                                    DSub(opex_ratio, EFFICIENCY_RATIO_MID)),
                               lower_range))
                ELSE dec(0, 1)
            ELSE dec(0, 1)
    IN  IF Panicked(opex_ratio) THEN Some(Panic)
        ELSE Some(clamp_score(score))

(* an unrecognised outcome grouped with Adverse and Disclaimer *)
calculate_accountability_score_grouped(outcome_str_opt) ==
    IF outcome_str_opt = None THEN dec(0, 1)
    ELSE LET outcome == AuditOutcomeFrom(Unwrap(outcome_str_opt)) IN
         CASE outcome.variant = "Clean" -> dec(1000, 1)
           [] outcome.variant = "FinanciallyUnqualified" -> dec(750, 1)
           [] outcome.variant = "Qualified" -> dec(500, 1)
           [] OTHER -> dec(250, 1)

calculate_accountability_score(outcome_str_opt) ==
    IF outcome_str_opt = None THEN dec(0, 1)
    ELSE LET outcome == AuditOutcomeFrom(Unwrap(outcome_str_opt)) IN
         CASE outcome.variant = "Clean" -> dec(1000, 1)
           [] outcome.variant = "FinanciallyUnqualified" -> dec(750, 1)
           [] outcome.variant = "Qualified" -> dec(500, 1)
           [] outcome.variant = "Adverse" -> dec(250, 1)
           [] outcome.variant = "Disclaimer" -> dec(250, 1)
           [] outcome.variant = "Unknown" -> dec(0, 1)

(* The outcome of a call: "returned" with the Option<ScoreBreakdown> it    *)
(* returned, or "panicked".                                                *)
calculate_financial_score(input) ==
    LET fin_health_score ==
            unwrap_or(calculate_fin_health_score(input.revenue, input.debt, input.population), ZERO)
        infra_score ==
            unwrap_or(calculate_infra_score(input.operational_expenditure,
                                            input.capital_expenditure), ZERO)
        efficiency_score ==
            unwrap_or(calculate_efficiency_score(input.operational_expenditure,
                                                 input.revenue), ZERO)
        accountability_score == calculate_accountability_score(input.audit_outcome)
        overall_score ==
            DAdd(DAdd(DAdd(DMul(fin_health_score, WEIGHT_FIN_HEALTH),
                           DMul(infra_score, WEIGHT_INFRA)),
                      DMul(efficiency_score, WEIGHT_EFFICIENCY)),
                 DMul(accountability_score, WEIGHT_ACCOUNTABILITY))
        final_overall_score == clamp_score(overall_score)
    IN  IF Panicked(final_overall_score)
        THEN [outcome |-> "panicked", value |-> None]
        ELSE [outcome |-> "returned",
              value |-> Some([overall_score |-> final_overall_score,
                              financial_health_score |-> fin_health_score,
                              infrastructure_score |-> infra_score,
                              efficiency_score |-> efficiency_score,
                              accountability_score |-> accountability_score])]

-----------------------------------------------------------------------------
(* The divisors of the divisions a call executes, on the path it takes *)

rev_per_cap_divisors(revenue_opt, population_opt) ==
    IF revenue_opt = None THEN {}
    ELSE IF population_opt = None \/ ~(Unwrap(population_opt) > 0) THEN {}
    ELSE LET range == DSub(REV_PER_CAPITA_MAX, REV_PER_CAPITA_MIN) IN
         {DecFromInt(Unwrap(population_opt))}
             \cup (IF DLe(range, ZERO) THEN {} ELSE {range})

debt_ratio_divisors(debt_opt, revenue_opt) ==
    IF debt_opt = None THEN {}
    ELSE IF revenue_opt = None \/ ~DGt(Unwrap(revenue_opt), ZERO) THEN {}
    ELSE LET range == DSub(DEBT_RATIO_MAX, DEBT_RATIO_MIN) IN
         {Unwrap(revenue_opt)} \cup (IF DLe(range, ZERO) THEN {} ELSE {range})

fin_health_divisors(revenue_opt, debt_opt, population_opt) ==
    rev_per_cap_divisors(revenue_opt, population_opt)
        \cup (IF calculate_rev_per_cap_subscore(revenue_opt, population_opt) = None
              THEN {}
              ELSE debt_ratio_divisors(debt_opt, revenue_opt))

infra_divisors(operational_expenditure_opt, capex_opt) ==
    IF operational_expenditure_opt = None THEN {}
    ELSE IF capex_opt = None THEN {}
    ELSE
    LET total_expenditure == DAdd(Unwrap(operational_expenditure_opt), Unwrap(capex_opt))
        capex_ratio == DDiv(DMax(Unwrap(capex_opt), ZERO), total_expenditure)
        lower_range == DSub(INFRA_RATIO_MID, INFRA_RATIO_WORST)
        upper_range == DSub(INFRA_RATIO_BEST, INFRA_RATIO_MID)
    IN  IF DLe(total_expenditure, ZERO) THEN {}
        ELSE {total_expenditure}
             \cup (IF DLe(capex_ratio, INFRA_RATIO_WORST) THEN {}
                   ELSE IF DLt(capex_ratio, INFRA_RATIO_MID)
                        THEN (IF DGt(lower_range, ZERO) THEN {lower_range} ELSE {})
                   ELSE IF DLt(capex_ratio, INFRA_RATIO_BEST)
                        THEN (IF DGt(upper_range, ZERO) THEN {upper_range} ELSE {})
                   ELSE {})

efficiency_divisors(operational_expenditure_opt, revenue_opt) ==
    IF operational_expenditure_opt = None THEN {}
    ELSE IF revenue_opt = None \/ ~DGt(Unwrap(revenue_opt), ZERO) THEN {}
    ELSE
    LET opex_ratio == DDiv(Unwrap(operational_expenditure_opt), Unwrap(revenue_opt))
        upper_range == DSub(EFFICIENCY_RATIO_MID, EFFICIENCY_RATIO_BEST)
        lower_range == DSub(EFFICIENCY_RATIO_WORST, EFFICIENCY_RATIO_MID)
    IN  {Unwrap(revenue_opt)}
            \cup (IF DLe(opex_ratio, EFFICIENCY_RATIO_BEST) THEN {}
                  ELSE IF DLe(opex_ratio, EFFICIENCY_RATIO_MID)
                       THEN (IF DGt(upper_range, ZERO) THEN {upper_range} ELSE {})
                  ELSE IF DLt(opex_ratio, EFFICIENCY_RATIO_WORST)
                       THEN (IF DGt(lower_range, ZERO) THEN {lower_range} ELSE {})
                  ELSE {})

financial_score_divisors(input) ==
    fin_health_divisors(input.revenue, input.debt, input.population)
        \cup infra_divisors(input.operational_expenditure, input.capital_expenditure)
        \cup efficiency_divisors(input.operational_expenditure, input.revenue)

-----------------------------------------------------------------------------
(* The inputs.  Amount(k) is k times 700 currency units.                   *)

Amount(k) == DecFromInt(700 * k)

RevenueK == {10 * k : k \in -1 .. MaxRevenueK}

OpexK == {-1, 0, 7, 8, 9, 17, 22, 23, 34}

CapexK == -1 .. MaxCapexK

DebtK == {-1, 0, 1, 5, 10}

OptionOf(S) == {None} \cup {Some(x) : x \in S}

RevenueAmounts == {Amount(k) : k \in RevenueK}

OpexAmounts == {Amount(k) : k \in OpexK}

CapexAmounts == {Amount(k) : k \in CapexK}

DebtAmounts == {Amount(k) : k \in DebtK} \cup {DecFromInt(100)}

Pad(n) == [i \in 1 .. n |-> " "]

Padded(S) == {Pad(n) \o label \o Pad(m) : n \in 0 .. MaxPad, m \in 0 .. MaxPad, label \in S}

(* The labels AuditOutcome::from matches *)
MatchedLabels ==
    { <<"Unqualified", " ", "-", " ", "No", " ", "findings">>,
      <<"Unqualified", " ", "-", " ", "Emphasis", " ", "of", " ", "Matter", " ", "items">>,
      <<"Qualified">>, <<"Adverse">>, <<"Disclaimer">>, <<"Outstanding">> }

(* The labels the comments of enum AuditOutcome give its variants *)
DocumentedLabels ==
    { <<"Clean", " ", "Audit">>,
      <<"Financially", " ", "Unqualified">>,
      <<"Qualified", " ", "Audit", " ", "Opinion">>,
      <<"Adverse", " ", "Audit", " ", "Opinion">>,
      <<"Disclaimer", " ", "Of", " ", "Audit", " ", "Opinion">> }

OtherLabels ==
    { <<>>, <<"Some", " ", "Unmapped", " ", "Text">>, <<"qualified">>, <<"ADVERSE">> }

AuditTexts == Padded(MatchedLabels \cup DocumentedLabels \cup OtherLabels)

ScoringInputs(revenues, opexes, capexes, debts, audits, populations) ==
    [revenue : revenues,
     operational_expenditure : opexes,
     capital_expenditure : capexes,
     debt : debts,
     audit_outcome : audits,
     population : populations]

(* Every combination of amounts, with a few audit outcomes *)
AmountInputs ==
    ScoringInputs(OptionOf(RevenueAmounts),
                  OptionOf(OpexAmounts),
                  OptionOf(CapexAmounts),
                  OptionOf(DebtAmounts),
                  {None, Some(<<"Qualified">>), Some(<<"Clean", " ", "Audit">>),
                   Some(<<"Unqualified", " ", "-", " ", "No", " ", "findings">>)},
                  OptionOf(0 .. MaxPopulation))

(* Every audit text, with a few combinations of amounts *)
AuditInputs ==
    ScoringInputs(OptionOf({Amount(20)}),
                  OptionOf({Amount(17)}),
                  OptionOf({Amount(3)}),
                  {Some(Amount(5))},
                  OptionOf(AuditTexts),
                  {Some(1)})

-----------------------------------------------------------------------------
(* One call of calculate_financial_score *)

TypeOK ==
    /\ pc \in {"call", "returned", "panicked"}
    /\ pc = "call" => result = None

(* No table and no request: the state of the server for a direct call *)
NoListOrFetch ==
    /\ municipal_geometries = <<>>
    /\ list_request = <<>>
    /\ api_response = <<>>
    /\ fetch_results = <<>>

NoServer ==
    /\ municipalities = <<>>
    /\ financial_data = <<>>
    /\ requests = <<>>
    /\ NoListOrFetch

Init ==
    /\ scoring_input \in AmountInputs
    /\ result = None
    /\ pc = "call"
    /\ NoServer

InitAudit ==
    /\ scoring_input \in AuditInputs
    /\ result = None
    /\ pc = "call"
    /\ NoServer

CalculateFinancialScore ==
    /\ pc = "call"
    /\ LET call == calculate_financial_score(scoring_input) IN
        /\ pc' = call.outcome
        /\ result' = call.value
    /\ UNCHANGED <<scoring_input, municipalities, financial_data, requests, map_vars, fetch_vars>>

Next == CalculateFinancialScore

Spec == Init /\ [][Next]_vars

SpecAudit == InitAudit /\ [][Next]_vars

-----------------------------------------------------------------------------
(* Vocabulary of the properties *)

Returned == pc = "returned" /\ result # None

Breakdown == Unwrap(result)

Hundred == DecFromInt(100)

InScoreRange(x) == ~Panicked(x) /\ DGe(x, ZERO) /\ DLe(x, Hundred)

Present(o) == o # None

AllAbsent(input) ==
    /\ input.revenue = None
    /\ input.operational_expenditure = None
    /\ input.capital_expenditure = None
    /\ input.debt = None
    /\ input.audit_outcome = None
    /\ input.population = None

C2_OverallIsWeightedSum ==
    Returned =>
        Breakdown.overall_score =
            DAdd(DAdd(DAdd(DMul(Frac(30, 100), Breakdown.financial_health_score),
                           DMul(Frac(25, 100), Breakdown.infrastructure_score)),
                      DMul(Frac(25, 100), Breakdown.efficiency_score)),
                 DMul(Frac(20, 100), Breakdown.accountability_score))

C2_Witness ==
    /\ Returned
    /\ DGt(Breakdown.financial_health_score, ZERO)
    /\ DGt(Breakdown.infrastructure_score, Breakdown.financial_health_score)
    /\ DGt(Breakdown.efficiency_score, Breakdown.infrastructure_score)
    /\ DGt(Breakdown.accountability_score, ZERO)
    /\ Breakdown.accountability_score # Breakdown.efficiency_score

C4_Expected ==
    [label \in DocumentedLabels |->
        CASE label = <<"Clean", " ", "Audit">> ->
                 [variant |-> "Clean", score |-> DecFromInt(100)]
          [] label = <<"Financially", " ", "Unqualified">> ->
                 [variant |-> "FinanciallyUnqualified", score |-> DecFromInt(75)]
          [] label = <<"Qualified", " ", "Audit", " ", "Opinion">> ->
                 [variant |-> "Qualified", score |-> DecFromInt(50)]
          [] label = <<"Adverse", " ", "Audit", " ", "Opinion">> ->
                 [variant |-> "Adverse", score |-> DecFromInt(25)]
          [] label = <<"Disclaimer", " ", "Of", " ", "Audit", " ", "Opinion">> ->
                 [variant |-> "Disclaimer", score |-> DecFromInt(25)]]

C4_DocumentedLabelsScore ==
    (Returned /\ Present(scoring_input.audit_outcome)
              /\ Unwrap(scoring_input.audit_outcome) \in DocumentedLabels) =>
        LET label == Unwrap(scoring_input.audit_outcome) IN
        /\ AuditOutcomeFrom(label).variant = C4_Expected[label].variant
        /\ Breakdown.accountability_score = C4_Expected[label].score

(* C5: the accountability pillar always has a value; it is exactly 0 for   *)
(* an absent audit outcome and, through classification as Unknown, for the *)
(* empty text and for every text that none of the classifier's match arms  *)
(* accepts.                                                                *)
C5_AccountabilityTotal ==
    Returned =>
        /\ calculate_accountability_score(scoring_input.audit_outcome) # None
        /\ ~Panicked(calculate_accountability_score(scoring_input.audit_outcome))
        /\ Breakdown.accountability_score =
               calculate_accountability_score(scoring_input.audit_outcome)
        /\ scoring_input.audit_outcome = None =>
               Breakdown.accountability_score = ZERO
        /\ (Present(scoring_input.audit_outcome)
              /\ Trim(Unwrap(scoring_input.audit_outcome)) \notin MatchedLabels) =>
               /\ AuditOutcomeFrom(Unwrap(scoring_input.audit_outcome)).variant = "Unknown"
               /\ Breakdown.accountability_score = ZERO

C5_Witness ==
    /\ Returned
    /\ scoring_input.audit_outcome = Some(<<"Some", " ", "Unmapped", " ", "Text">>)
    /\ Breakdown.accountability_score = ZERO

C8_RevPerCapMonotone ==
    (Returned /\ Present(scoring_input.revenue)
              /\ Present(scoring_input.population)
              /\ Unwrap(scoring_input.population) > 0) =>
        LET r2 == Unwrap(scoring_input.revenue)
            s2 == calculate_rev_per_cap_subscore(Some(r2), scoring_input.population)
        IN  /\ s2 # None
            /\ \A r1 \in RevenueAmounts :
                   DLe(r1, r2) =>
                       DLe(Unwrap(calculate_rev_per_cap_subscore(
                                      Some(r1), scoring_input.population)),
                           Unwrap(s2))
            /\ DGe(DDiv(r2, DecFromInt(Unwrap(scoring_input.population))),
                   DecFromInt(14000)) => Unwrap(s2) = Hundred

C8_Witness ==
    /\ Returned
    /\ scoring_input.population = Some(1)
    /\ scoring_input.revenue = Some(Amount(30))
    /\ calculate_rev_per_cap_subscore(Some(Amount(30)), Some(1)) = Some(Hundred)
    /\ calculate_rev_per_cap_subscore(Some(Amount(20)), Some(1)) = Some(Hundred)
    /\ calculate_rev_per_cap_subscore(Some(Amount(10)), Some(1)) = Some(DecFromInt(50))

(* C9: for a fixed revenue > 0 the debt-ratio sub-score never increases    *)
(* when debt grows.                                                        *)
C9_DebtRatioAntitone ==
    (Returned /\ Present(scoring_input.debt)
              /\ Present(scoring_input.revenue)
              /\ DGt(Unwrap(scoring_input.revenue), ZERO)) =>
        LET d2 == Unwrap(scoring_input.debt)
            s2 == calculate_debt_ratio_subscore(Some(d2), scoring_input.revenue)
        IN  /\ s2 # None
            /\ \A d1 \in DebtAmounts :
                   DLe(d1, d2) =>
                       DGe(Unwrap(calculate_debt_ratio_subscore(
                                      Some(d1), scoring_input.revenue)),
                           Unwrap(s2))

C9_Witness ==
    /\ Returned
    /\ scoring_input.revenue = Some(Amount(10))
    /\ scoring_input.debt = Some(Amount(5))
    /\ DLt(Unwrap(calculate_debt_ratio_subscore(Some(Amount(5)), Some(Amount(10)))),
           Unwrap(calculate_debt_ratio_subscore(Some(Amount(1)), Some(Amount(10)))))
    /\ DGt(Unwrap(calculate_debt_ratio_subscore(Some(Amount(5)), Some(Amount(10)))),
           Unwrap(calculate_debt_ratio_subscore(Some(Amount(10)), Some(Amount(10)))))

(* C10: the financial-health pillar is half the revenue-per-capita         *)
(* sub-score plus half the debt-ratio sub-score when both exist and None   *)
(* when either is None; with revenue 0 and debt 100 present the debt-ratio *)
(* sub-score is None and the breakdown's financial_health_score is 0.      *)
C10_FinHealthCombination ==
    Returned =>
        LET rpc == calculate_rev_per_cap_subscore(scoring_input.revenue,
                                                  scoring_input.population)
            dr == calculate_debt_ratio_subscore(scoring_input.debt,
                                                scoring_input.revenue)
            fh == calculate_fin_health_score(scoring_input.revenue, scoring_input.debt,
                                             scoring_input.population)
        IN  /\ (rpc # None /\ dr # None) =>
                   /\ fh = Some(DAdd(DMul(Frac(1, 2), Unwrap(rpc)),
                                     DMul(Frac(1, 2), Unwrap(dr))))
                   /\ Breakdown.financial_health_score = Unwrap(fh)
            /\ (rpc = None \/ dr = None) =>
                   /\ fh = None
                   /\ Breakdown.financial_health_score = ZERO
            /\ (scoring_input.revenue = Some(ZERO)
                  /\ scoring_input.debt = Some(DecFromInt(100))) =>
                   /\ dr = None
                   /\ Breakdown.financial_health_score = ZERO

C10_Witness ==
    /\ Returned
    /\ scoring_input.revenue = Some(ZERO)
    /\ scoring_input.debt = Some(DecFromInt(100))
    /\ scoring_input.population = Some(1)
    /\ calculate_rev_per_cap_subscore(scoring_input.revenue,
                                      scoring_input.population) = Some(ZERO)
    /\ Breakdown.financial_health_score = ZERO

(* C11: a call gives the same breakdown as the call on the input in which  *)
(* every negative revenue, operating expenditure, capital expenditure and  *)
(* debt is replaced by 0.                                                  *)
NonNegative(amount_opt) ==
    IF amount_opt # None /\ DLt(Unwrap(amount_opt), ZERO) THEN Some(ZERO) ELSE amount_opt

ClampedInput(input) ==
    [input EXCEPT !.revenue = NonNegative(@),
                  !.operational_expenditure = NonNegative(@),
                  !.capital_expenditure = NonNegative(@),
                  !.debt = NonNegative(@)]

C11_NegativesAsZero ==
    Returned => result = calculate_financial_score(ClampedInput(scoring_input)).value

(* C13: the aggregation weights are 0.30, 0.25, 0.25 and 0.20 and sum to   *)
(* exactly 1, and the two financial-health sub-weights are 0.5 and 0.5 and *)
(* sum to exactly 1; so four pillars at 100 give an overall score of 100.  *)
C13_WeightsSumToOne ==
    /\ WEIGHT_FIN_HEALTH = Frac(30, 100)
    /\ WEIGHT_INFRA = Frac(25, 100)
    /\ WEIGHT_EFFICIENCY = Frac(25, 100)
    /\ WEIGHT_ACCOUNTABILITY = Frac(20, 100)
    /\ DAdd(DAdd(DAdd(WEIGHT_FIN_HEALTH, WEIGHT_INFRA), WEIGHT_EFFICIENCY),
            WEIGHT_ACCOUNTABILITY) = DecFromInt(1)
    /\ WEIGHT_REV_PER_CAP = Frac(1, 2)
    /\ WEIGHT_DEBT_RATIO = Frac(1, 2)
    /\ DAdd(WEIGHT_REV_PER_CAP, WEIGHT_DEBT_RATIO) = DecFromInt(1)
    /\ (Returned /\ Breakdown.financial_health_score = Hundred
                 /\ Breakdown.infrastructure_score = Hundred
                 /\ Breakdown.efficiency_score = Hundred
                 /\ Breakdown.accountability_score = Hundred) =>
           Breakdown.overall_score = Hundred

C13_Witness ==
    /\ Returned
    /\ Breakdown.financial_health_score = Hundred
    /\ Breakdown.infrastructure_score = Hundred
    /\ Breakdown.efficiency_score = Hundred
    /\ Breakdown.accountability_score = Hundred

(* C14: the weighted sum of the four pillar scores lies in [0, 100] before *)
(* it is clamped, so clamp_score returns it unchanged as overall_score.    *)
UnclampedOverall ==
    DAdd(DAdd(DAdd(DMul(Breakdown.financial_health_score, WEIGHT_FIN_HEALTH),
                   DMul(Breakdown.infrastructure_score, WEIGHT_INFRA)),
              DMul(Breakdown.efficiency_score, WEIGHT_EFFICIENCY)),
         DMul(Breakdown.accountability_score, WEIGHT_ACCOUNTABILITY))

C14_ClampIsIdentity ==
    Returned =>
        /\ InScoreRange(UnclampedOverall)
        /\ clamp_score(UnclampedOverall) = UnclampedOverall
        /\ Breakdown.overall_score = UnclampedOverall

C14_Witness ==
    /\ Returned
    /\ UnclampedOverall = Hundred
    /\ Breakdown.overall_score = Hundred

TableCategory(label) ==
    CASE label = <<"Unqualified", " ", "-", " ", "No", " ", "findings">> -> "Clean"
      [] label = <<"Unqualified", " ", "-", " ", "Emphasis", " ", "of", " ", "Matter", " ", "items">>
             -> "FinanciallyUnqualified"
      [] label = <<"Qualified">> -> "Qualified"
      [] label = <<"Adverse">> -> "Adverse"
      [] label = <<"Disclaimer">> -> "Disclaimer"
      [] OTHER -> "Unknown"

(* Texts that differ from a table entry by letter case only *)
CaseVariants == { <<"qualified">>, <<"ADVERSE">> }

(* C16: classification is an exact, case-sensitive match on the trimmed    *)
(* text. Whitespace added before or after the text never changes its       *)
(* category or its score, a padded table label gets the label's category,  *)
(* and a text whose trimmed form is no table entry, or is one only up to   *)
(* letter case, is Unknown and scores 0.                                   *)
C16_ExactTrimmedMatch ==
    (Returned /\ Present(scoring_input.audit_outcome)) =>
        LET s == Unwrap(scoring_input.audit_outcome) IN
        /\ \A n \in 0 .. MaxPad + 1, m \in 0 .. MaxPad + 1 :
               /\ AuditOutcomeFrom(Pad(n) \o s \o Pad(m)).variant = AuditOutcomeFrom(s).variant
               /\ calculate_accountability_score(Some(Pad(n) \o s \o Pad(m)))
                      = Breakdown.accountability_score
        /\ AuditOutcomeFrom(s).variant = TableCategory(Trim(s))
        /\ Trim(s) \notin MatchedLabels =>
               /\ AuditOutcomeFrom(s).variant = "Unknown"
               /\ Breakdown.accountability_score = ZERO
        /\ Trim(s) \in CaseVariants =>
               /\ AuditOutcomeFrom(s).variant = "Unknown"
               /\ Breakdown.accountability_score = ZERO

C16_Witness ==
    /\ Returned
    /\ scoring_input.audit_outcome = Some(<<" ", "Qualified", " ">>)
    /\ AuditOutcomeFrom(<<" ", "Qualified", " ">>).variant = "Qualified"
    /\ AuditOutcomeFrom(<<"qualified">>).variant = "Unknown"
    /\ Breakdown.accountability_score = DecFromInt(50)

(* C17: the revenue-per-capita sub-score is None when revenue is absent or *)
(* population is absent or 0. Otherwise, with x = revenue / population, it *)
(* is 100 when x >= 14000, 0 when x <= 0, and 100 * x / 14000 in between.  *)
C17_RevPerCapFormula ==
    Returned =>
        LET revenue_opt == scoring_input.revenue
            population_opt == scoring_input.population
            subscore == calculate_rev_per_cap_subscore(revenue_opt, population_opt)
        IN  IF revenue_opt = None \/ population_opt = None \/ Unwrap(population_opt) = 0
            THEN subscore = None
            ELSE LET x == DDiv(Unwrap(revenue_opt), DecFromInt(Unwrap(population_opt))) IN
                 /\ DGe(x, DecFromInt(14000)) => subscore = Some(Hundred)
                 /\ DLe(x, ZERO) => subscore = Some(ZERO)
                 /\ (DGt(x, ZERO) /\ DLt(x, DecFromInt(14000))) =>
                        subscore = Some(DDiv(DMul(Hundred, x), DecFromInt(14000)))

C17_Witness ==
    /\ Returned
    /\ scoring_input.revenue = Some(DecFromInt(7000))
    /\ scoring_input.population = Some(2)
    /\ calculate_rev_per_cap_subscore(scoring_input.revenue, scoring_input.population)
           = Some(DecFromInt(25))

(* C18: the debt-ratio sub-score is None when debt is absent or revenue is *)
(* absent or <= 0. Otherwise, with x = debt / revenue, it is 100 when      *)
(* x <= 0.10, 0 when x >= 1.0, and 100 * (1.0 - x) / 0.9 in between.       *)
C18_DebtRatioFormula ==
    Returned =>
        LET debt_opt == scoring_input.debt
            revenue_opt == scoring_input.revenue
            subscore == calculate_debt_ratio_subscore(debt_opt, revenue_opt)
        IN  IF debt_opt = None \/ revenue_opt = None \/ DLe(Unwrap(revenue_opt), ZERO)
            THEN subscore = None
            ELSE LET x == DDiv(Unwrap(debt_opt), Unwrap(revenue_opt)) IN
                 /\ DLe(x, Frac(1, 10)) => subscore = Some(Hundred)
                 /\ DGe(x, DecFromInt(1)) => subscore = Some(ZERO)
                 /\ (DGt(x, Frac(1, 10)) /\ DLt(x, DecFromInt(1))) =>
                        subscore = Some(DDiv(DMul(Hundred, DSub(DecFromInt(1), x)), Frac(9, 10)))

C18_Witness ==
    /\ Returned
    /\ scoring_input.debt = Some(DecFromInt(3500))
    /\ scoring_input.revenue = Some(DecFromInt(7000))
    /\ scoring_input.population = Some(1)
    /\ calculate_debt_ratio_subscore(scoring_input.debt, scoring_input.revenue)
           = Some(Frac(500, 9))

(* The share of capital expenditure in total expenditure *)
CapexShare(opex, capex) == DDiv(capex, DAdd(opex, capex))

-----------------------------------------------------------------------------
(* The municipality-detail handler (src/handlers/municipalities.rs) over   *)
(* the tables municipalities and financial_data and the upstream API.      *)
(* A Result is a record with the field ok; a row of financial_data is the  *)
(* record of its five metrics and five scores, keyed by municipality and   *)
(* year.  The response is the value handed to the JSON serializer.         *)

MaxConcurrent == 2

fetch_year == 2023

Years == {fetch_year - 1, fetch_year}

MuniIds == {"BUF", "NOPE"}

Metrics == {"revenue", "operational_expenditure", "capital_expenditure", "debt", "audit_outcome"}

ScoreFields ==
    {"overall_score", "financial_health_score", "infrastructure_score",
     "efficiency_score", "accountability_score"}

Ok(x) == [ok |-> TRUE, value |-> x]

Err == [ok |-> FALSE, value |-> None]

(* Result::ok followed by Option::flatten *)
ok_flatten(res) == IF res.ok THEN res.value ELSE None

(* FinancialYearData { year, ..Default::default() } *)
DefaultFinancialYearData(year) ==
    [year |-> year,
     revenue |-> None, operational_expenditure |-> None, capital_expenditure |-> None,
     debt |-> None, audit_outcome |-> None,
     overall_score |-> None, financial_health_score |-> None,
     infrastructure_score |-> None, efficiency_score |-> None,
     accountability_score |-> None]

(* `p as u32` of an f32 given as a fraction: truncation toward zero,       *)
(* saturating at 0 for a negative value                                    *)
f32_as_u32(p) == IF p[1] <= 0 THEN 0 ELSE p[1] \div p[2]

(* SELECT ... FROM financial_data WHERE municipality_id = $1 ORDER BY year DESC *)
RECURSIVE RowsByYearDesc(_, _)
RowsByYearDesc(rows_of, years) ==
    IF years = {} THEN <<>>
    ELSE LET y == CHOOSE y \in years : \A z \in years : z <= y IN
         (IF rows_of[y] = None THEN <<>> ELSE <<Unwrap(rows_of[y])>>)
             \o RowsByYearDesc(rows_of, years \ {y})

get_all_financial_years_db(table, muni_id) == RowsByYearDesc(table[muni_id], Years)

(* .into_iter().find(|fd| fd.year == fetch_year) *)
RECURSIVE find_year(_, _)
find_year(rows, year) ==
    IF rows = <<>> THEN None
    ELSE IF Head(rows).year = year THEN Some(Head(rows))
    ELSE find_year(Tail(rows), year)

(* The state of one tokio::join! branch *)
Idle == [state |-> "idle", ok |-> FALSE, value |-> None]

Fetching == [state |-> "fetching", ok |-> FALSE, value |-> None]

Done(res) == [state |-> "done", ok |-> res.ok, value |-> res.value]

(* a branch that fetches whatever the cache holds *)
join_branch_refetch(cached) == Fetching

(* The first poll of a branch: fetch if the cached value is_none *)
join_branch(cached) == IF cached = None THEN Fetching ELSE Done(Ok(cached))

(* a join that returns as soon as one branch has completed *)
JoinComplete_first(req) == \E m \in Metrics : req.res[m].state = "done"

(* tokio::join! returns when every branch has completed *)
JoinComplete(req) == \A m \in Metrics : req.res[m].state = "done"

NewRequest(muni_id) ==
    [pc |-> "start",
     muni_id |-> muni_id,
     base_info |-> None,
     population_opt |-> None,
     cached |-> None,
     financial_data |-> DefaultFinancialYearData(fetch_year),
     res |-> [m \in Metrics |-> Idle],
     issued |-> {},
     scoring_input |-> None,
     upsert_res |-> "none",
     response |-> None]

ErrorResponse(status, error) == [status |-> status, error |-> error, financials |-> <<>>]

(* What the upstream API holds for a metric, and what the cache may hold *)
FetchedValue(m) ==
    CASE m = "revenue" -> Amount(20)
      [] m = "operational_expenditure" -> Amount(8)
      [] m = "capital_expenditure" -> Amount(2)
      [] m = "debt" -> Amount(1)
      [] m = "audit_outcome" -> <<"Unqualified", " ", "-", " ", "No", " ", "findings">>

CachedValue(m) ==
    CASE m = "revenue" -> Amount(10)
      [] m = "operational_expenditure" -> Amount(17)
      [] m = "capital_expenditure" -> Amount(1)
      [] m = "debt" -> Amount(5)
      [] m = "audit_outcome" -> <<"Qualified">>

(* A fetcher returns an error, Ok(None) or Ok(Some(value)) *)
FetchOutcomes(m) == {Err, Ok(None), Ok(Some(FetchedValue(m)))}

PopulationValues == {<<-1, 1>>, <<1, 2>>, <<5, 2>>}

(* A cached row: any subset of the metrics present, no score yet *)
CachedRow(present) ==
    [m \in DOMAIN DefaultFinancialYearData(fetch_year) |->
        IF m \in present THEN Some(CachedValue(m))
        ELSE DefaultFinancialYearData(fetch_year)[m]]

(* The row of an earlier year, already scored *)
EarlierRow ==
    [DefaultFinancialYearData(fetch_year - 1) EXCEPT
        !.revenue = Some(Amount(10)), !.overall_score = Some(DecFromInt(40))]

Tables(population_opts, rows) ==
    /\ \E p \in population_opts :
           municipalities = [id \in MuniIds |->
                                IF id = "BUF" THEN Some([id |-> id, population |-> p]) ELSE None]
    /\ \E row \in rows, earlier \in {None, Some(EarlierRow)} :
           financial_data = [id \in MuniIds |->
                                [y \in Years |->
                                    IF id # "BUF" THEN None
                                    ELSE IF y = fetch_year THEN row ELSE earlier]]

NoCall ==
    /\ scoring_input = <<>>
    /\ result = None
    /\ pc = "idle"

(* The detail handler alone: no list request, no fetcher observed *)
DetailOnly == NoCall /\ NoListOrFetch

(* One request, over every cached row and population *)
InitDetail ==
    /\ DetailOnly
    /\ Tables(OptionOf(PopulationValues), OptionOf({CachedRow(present) : present \in SUBSET Metrics}))
    /\ \E muni_id \in MuniIds : requests = [r \in {1} |-> NewRequest(muni_id)]

(* Concurrent requests for one municipality whose cached row lacks revenue *)
InitConcurrent ==
    /\ DetailOnly
    /\ Tables({Some(<<5, 2>>)}, {Some(CachedRow(Metrics \ {"revenue"}))})
    /\ requests = [r \in 1 .. MaxConcurrent |-> NewRequest("BUF")]

(* a missing base row replaced by a default one *)
GetBaseInfo_defaulting(r) ==
    /\ requests[r].pc = "start"
    /\ \E db \in {Err, Ok(municipalities[requests[r].muni_id])} :
           requests' = [requests EXCEPT ![r] =
               IF ~db.ok
                   THEN [@ EXCEPT !.pc = "done",
                                  !.base_info = Some(db),
                                  !.response = Some(ErrorResponse(500, "SqlxError"))]
               ELSE [@ EXCEPT !.pc = "read_cache",
                              !.base_info = Some(db),
                              !.population_opt =
                                  IF db.value = None THEN None
                                  ELSE Unwrap(db.value).population]]
    /\ UNCHANGED <<scoring_input, result, pc, municipalities, financial_data, map_vars, fetch_vars>>

(* lines 27-34: the base row of the municipality, or NotFound *)
GetBaseInfo(r) ==
    /\ requests[r].pc = "start"
    /\ \E db \in {Err, Ok(municipalities[requests[r].muni_id])} :
           requests' = [requests EXCEPT ![r] =
               IF ~db.ok
                   THEN [@ EXCEPT !.pc = "done",
                                  !.base_info = Some(db),
                                  !.response = Some(ErrorResponse(500, "SqlxError"))]
               ELSE IF db.value = None
                   THEN [@ EXCEPT !.pc = "done",
                                  !.base_info = Some(db),
                                  !.response = Some(ErrorResponse(404, "NotFound"))]
               ELSE [@ EXCEPT !.pc = "read_cache",
                              !.base_info = Some(db),
                              !.population_opt = Unwrap(db.value).population]]
    /\ UNCHANGED <<scoring_input, result, pc, municipalities, financial_data, map_vars, fetch_vars>>

(* lines 40-101: the cached rows are read, the row of fetch_year (or the   *)
(* default) becomes financial_data, and the first poll of tokio::join!     *)
(* starts a fetch for every metric it lacks                                *)
GetAllFinancialYears(r) ==
    /\ requests[r].pc = "read_cache"
    /\ \E db \in {Err, Ok(get_all_financial_years_db(financial_data, requests[r].muni_id))} :
           requests' = [requests EXCEPT ![r] =
               IF ~db.ok
                   THEN [@ EXCEPT !.pc = "done",
                                  !.response = Some(ErrorResponse(500, "SqlxError"))]
               ELSE LET found == find_year(db.value, fetch_year)
                        row == unwrap_or(found, DefaultFinancialYearData(fetch_year))
                    IN  [@ EXCEPT !.pc = "join",
                                  !.cached = found,
                                  !.financial_data = row,
                                  !.res = [m \in Metrics |-> join_branch(row[m])],
                                  !.issued = {m \in Metrics : join_branch(row[m]) = Fetching}]]
    /\ UNCHANGED <<scoring_input, result, pc, municipalities, financial_data, map_vars, fetch_vars>>

(* lines 64, 72, 80, 88, 96: a fetch completes *)
FetchComplete(r, m) ==
    /\ requests[r].pc = "join"
    /\ requests[r].res[m].state = "fetching"
    /\ \E outcome \in FetchOutcomes(m) :
           requests' = [requests EXCEPT ![r].res[m] = Done(outcome)]
    /\ UNCHANGED <<scoring_input, result, pc, municipalities, financial_data, map_vars, fetch_vars>>

(* the scoring input built from the row as cached, before the update *)
score_request_before_update(req) ==
    LET updated == [m \in DOMAIN req.financial_data |->
                       IF m \in Metrics THEN ok_flatten(req.res[m])
                       ELSE req.financial_data[m]]
        input == [revenue |-> req.financial_data.revenue,
                  operational_expenditure |-> req.financial_data.operational_expenditure,
                  capital_expenditure |-> req.financial_data.capital_expenditure,
                  debt |-> req.financial_data.debt,
                  audit_outcome |-> req.financial_data.audit_outcome,
                  population |-> IF req.population_opt = None THEN None
                                 ELSE Some(f32_as_u32(Unwrap(req.population_opt)))]
        call == calculate_financial_score(input)
        scored == [m \in DOMAIN updated |->
                      IF m \in ScoreFields
                      THEN (IF call.value = None THEN None ELSE Some(Unwrap(call.value)[m]))
                      ELSE updated[m]]
    IN  IF call.outcome = "panicked"
        THEN [req EXCEPT !.pc = "panicked", !.scoring_input = Some(input)]
        ELSE [req EXCEPT !.pc = "upsert",
                         !.scoring_input = Some(input),
                         !.financial_data = scored]

(* lines 103-138: the results are stored, the scoring input is built and   *)
(* the scores are calculated                                               *)
score_request(req) ==
    LET updated == [m \in DOMAIN req.financial_data |->
                       IF m \in Metrics THEN ok_flatten(req.res[m])
                       ELSE req.financial_data[m]]
        input == [revenue |-> updated.revenue,
                  operational_expenditure |-> updated.operational_expenditure,
                  capital_expenditure |-> updated.capital_expenditure,
                  debt |-> updated.debt,
                  audit_outcome |-> updated.audit_outcome,
                  population |-> IF req.population_opt = None THEN None
                                 ELSE Some(f32_as_u32(Unwrap(req.population_opt)))]
        call == calculate_financial_score(input)
        scored == [m \in DOMAIN updated |->
                      IF m \in ScoreFields
                      THEN (IF call.value = None THEN None ELSE Some(Unwrap(call.value)[m]))
                      ELSE updated[m]]
    IN  IF call.outcome = "panicked"
        THEN [req EXCEPT !.pc = "panicked", !.scoring_input = Some(input)]
        ELSE [req EXCEPT !.pc = "upsert",
                         !.scoring_input = Some(input),
                         !.financial_data = scored]

(* a failed fetch returned to the caller with `?` *)
CalculateScores_propagating(r) ==
    /\ requests[r].pc = "join"
    /\ JoinComplete(requests[r])
    /\ requests' = [requests EXCEPT ![r] =
           IF \E m \in Metrics : ~requests[r].res[m].ok
           THEN [@ EXCEPT !.pc = "done",
                          !.response = Some(ErrorResponse(500, "ApiClientError"))]
           ELSE score_request(@)]
    /\ UNCHANGED <<scoring_input, result, pc, municipalities, financial_data, map_vars, fetch_vars>>

CalculateScores(r) ==
    /\ requests[r].pc = "join"
    /\ JoinComplete(requests[r])
    /\ requests' = [requests EXCEPT ![r] = score_request(@)]
    /\ UNCHANGED <<scoring_input, result, pc, municipalities, financial_data, map_vars, fetch_vars>>

(* INSERT ... ON CONFLICT (municipality_id, year) DO UPDATE SET every      *)
(* metric and score to the EXCLUDED value                                  *)
upsert_complete_financial_record(table, municipality_id, year, row) ==
    [table EXCEPT ![municipality_id][year] = Some(row)]

(* the upsert's error returned to the caller with `?` *)
Upsert_propagating(r) ==
    /\ requests[r].pc = "upsert"
    /\ \E db_ok \in BOOLEAN :
           /\ financial_data' =
                  IF db_ok
                  THEN upsert_complete_financial_record(financial_data, requests[r].muni_id,
                                                        fetch_year, requests[r].financial_data)
                  ELSE financial_data
           /\ requests' = [requests EXCEPT ![r] =
                  IF db_ok
                  THEN [@ EXCEPT !.pc = "respond", !.upsert_res = "Ok"]
                  ELSE [@ EXCEPT !.pc = "done", !.upsert_res = "Err",
                                 !.response = Some(ErrorResponse(500, "SqlxError"))]]
    /\ UNCHANGED <<scoring_input, result, pc, municipalities, map_vars, fetch_vars>>

(* lines 140-164: the upsert; its error is logged and dropped *)
Upsert(r) ==
    /\ requests[r].pc = "upsert"
    /\ \E db_ok \in BOOLEAN :
           /\ financial_data' =
                  IF db_ok
                  THEN upsert_complete_financial_record(financial_data, requests[r].muni_id,
                                                        fetch_year, requests[r].financial_data)
                  ELSE financial_data
           /\ requests' = [requests EXCEPT ![r].pc = "respond",
                                           ![r].upsert_res = IF db_ok THEN "Ok" ELSE "Err"]
    /\ UNCHANGED <<scoring_input, result, pc, municipalities, map_vars, fetch_vars>>

(* lines 166-182: the 200 response with the one financial year *)
Respond(r) ==
    /\ requests[r].pc = "respond"
    /\ requests' = [requests EXCEPT
           ![r].pc = "done",
           ![r].response = Some([status |-> 200, error |-> "",
                                 financials |-> <<requests[r].financial_data>>])]
    /\ UNCHANGED <<scoring_input, result, pc, municipalities, financial_data, map_vars, fetch_vars>>

NextDetail ==
    \E r \in DOMAIN requests :
        \/ GetBaseInfo(r)
        \/ GetAllFinancialYears(r)
        \/ \E m \in Metrics : FetchComplete(r, m)
        \/ CalculateScores(r)
        \/ Upsert(r)
        \/ Respond(r)

SpecDetail == InitDetail /\ [][NextDetail]_vars

SpecConcurrent == InitConcurrent /\ [][NextDetail]_vars

-----------------------------------------------------------------------------
(* Vocabulary of the handler properties *)

Scored(req) == req.scoring_input # None

UpsertAttempted(req) == req.upsert_res # "none"

Responded200(req) == req.response # None /\ Unwrap(req.response).status = 200

(* The one financial year of a 200 response *)
Returned200Row(req) == Unwrap(req.response).financials[1]

(* The metrics present in the cached row of fetch_year a request read *)
CachedMetrics(req) == {m \in Metrics : req.cached # None /\ Unwrap(req.cached)[m] # None}

(* C21: in every handling of a detail request the scoring input exists     *)
(* only once all five acquisitions have completed, the upsert is attempted *)
(* only after scoring, and the 200 response is produced only after the     *)
(* upsert attempt has finished.                                            *)
C21_HandlerOrder ==
    \A r \in DOMAIN requests :
        LET req == requests[r] IN
        /\ Scored(req) => \A m \in Metrics : req.res[m].state = "done"
        /\ req.pc \in {"upsert", "respond"} => Scored(req)
        /\ UpsertAttempted(req) =>
               /\ Scored(req)
               /\ \A f \in ScoreFields : req.financial_data[f] # None
        /\ Responded200(req) => UpsertAttempted(req) /\ req.pc = "done"
        /\ req.pc = "upsert" => ~UpsertAttempted(req) /\ req.response = None

C21_Witness ==
    \E r \in DOMAIN requests :
        /\ Responded200(requests[r])
        /\ requests[r].upsert_res = "Ok"
        /\ requests[r].cached = None
        /\ \A m \in Metrics : requests[r].res[m] = Done(Ok(Some(FetchedValue(m))))

(* C22: a request that has read the cache has issued an upstream fetch for *)
(* exactly the metrics absent from the cached row of fetch_year (all five  *)
(* when there is no such row), and a metric present in that row reaches    *)
(* the scoring input, the upserted row and the response unchanged.         *)
C22_FetchIffAbsent ==
    \A r \in DOMAIN requests :
        LET req == requests[r] IN
        /\ req.pc \in {"start", "read_cache"} => req.issued = {}
        /\ (req.response # None /\ Unwrap(req.response).status # 200) => req.issued = {}
        /\ req.pc \in {"join", "upsert", "respond"} \/ Responded200(req) =>
               /\ req.issued = Metrics \ CachedMetrics(req)
               /\ \A m \in CachedMetrics(req) :
                      LET cached_value == Unwrap(req.cached)[m] IN
                      /\ req.res[m] = Done(Ok(cached_value))
                      /\ Scored(req) =>
                             /\ Unwrap(req.scoring_input)[m] = cached_value
                             /\ req.financial_data[m] = cached_value
                      /\ req.upsert_res = "Ok" =>
                             Unwrap(financial_data[req.muni_id][fetch_year])[m] = cached_value
                      /\ Responded200(req) => Returned200Row(req)[m] = cached_value

C22_Witness ==
    \E r \in DOMAIN requests :
        LET req == requests[r] IN
        /\ Responded200(req)
        /\ req.upsert_res = "Ok"
        /\ CachedMetrics(req) = {"revenue", "audit_outcome"}
        /\ req.issued = {"operational_expenditure", "capital_expenditure", "debt"}
        /\ Returned200Row(req).revenue = Some(CachedValue("revenue"))
        /\ Returned200Row(req).debt = Some(FetchedValue("debt"))

(* What the handler keeps of a completed branch *)
Kept(req, m) == IF req.res[m].ok THEN req.res[m].value ELSE None

FailedFetches(req) == {m \in Metrics : req.res[m].state = "done" /\ ~req.res[m].ok}

(* The five scores calculate_financial_score gives for an input *)
ScoresOf(input) ==
    LET breakdown == Unwrap(calculate_financial_score(input).value) IN
    [f \in ScoreFields |-> Some(breakdown[f])]

(* C23: a request one of whose fetches failed does not fail: it never      *)
(* panics or ends with an error response, the failed metric is absent      *)
(* from the scoring input and the returned row, every other metric keeps   *)
(* its fetched or cached value, the scores are those of that input, and    *)
(* when the request is done its response is 200.                           *)
C23_FetchErrorTolerated ==
    \A r \in DOMAIN requests :
        LET req == requests[r] IN
        FailedFetches(req) # {} =>
            /\ req.pc \in {"join", "upsert", "respond", "done"}
            /\ req.pc = "done" <=> Responded200(req)
            /\ req.pc # "done" => req.response = None
            /\ Scored(req) =>
                   /\ \A m \in Metrics :
                          /\ Unwrap(req.scoring_input)[m] = Kept(req, m)
                          /\ req.financial_data[m] = Kept(req, m)
                          /\ m \in FailedFetches(req) => req.financial_data[m] = None
                   /\ \A f \in ScoreFields :
                          req.financial_data[f] = ScoresOf(Unwrap(req.scoring_input))[f]
            /\ Responded200(req) => Returned200Row(req) = req.financial_data

C23_Witness ==
    \E r \in DOMAIN requests :
        LET req == requests[r] IN
        /\ Responded200(req)
        /\ FailedFetches(req) = {"revenue"}
        /\ Returned200Row(req).revenue = None
        /\ Returned200Row(req).debt = Some(FetchedValue("debt"))
        /\ Returned200Row(req).operational_expenditure = Some(CachedValue("operational_expenditure"))
        /\ Returned200Row(req).capital_expenditure = Some(CachedValue("capital_expenditure"))
        /\ Returned200Row(req).infrastructure_score # None

(* C24: a request whose upsert failed does not fail: it goes on to the     *)
(* 200 response carrying the metrics and scores it computed, and the       *)
(* cached rows are as the request read them.                               *)
C24_UpsertErrorTolerated ==
    \A r \in DOMAIN requests :
        LET req == requests[r] IN
        req.upsert_res = "Err" =>
            /\ req.pc \in {"respond", "done"}
            /\ req.pc = "done" <=> Responded200(req)
            /\ req.pc # "done" => req.response = None
            /\ Responded200(req) =>
                   /\ Returned200Row(req) = req.financial_data
                   /\ \A m \in Metrics : Returned200Row(req)[m] = Kept(req, m)
                   /\ \A f \in ScoreFields :
                          Returned200Row(req)[f] = ScoresOf(Unwrap(req.scoring_input))[f]
            /\ financial_data[req.muni_id][fetch_year] = req.cached

C24_Witness ==
    \E r \in DOMAIN requests :
        LET req == requests[r] IN
        /\ Responded200(req)
        /\ req.upsert_res = "Err"
        /\ req.cached = Some(CachedRow({"revenue"}))
        /\ financial_data[req.muni_id][fetch_year] = Some(CachedRow({"revenue"}))
        /\ Returned200Row(req).debt = Some(FetchedValue("debt"))
        /\ Returned200Row(req).overall_score # None

(* C25: a request for an id with no municipality row reads no cached row, *)
(* issues no fetch, scores nothing and writes nothing; once the lookup has *)
(* found no row it has ended with NotFound (404) (a lookup whose query     *)
(* failed ends with SqlxError instead); and no financial_data row exists   *)
(* for an id without a municipality row.                                   *)
C25_UnknownIdNotFound ==
    /\ \A r \in DOMAIN requests :
           LET req == requests[r] IN
           municipalities[req.muni_id] = None =>
               /\ req.pc \in {"start", "done"}
               /\ req.issued = {}
               /\ \A m \in Metrics : req.res[m] = Idle
               /\ req.cached = None
               /\ ~Scored(req)
               /\ ~UpsertAttempted(req)
               /\ req.base_info = Some(Ok(None)) =>
                      /\ req.pc = "done"
                      /\ req.response = Some(ErrorResponse(404, "NotFound"))
               /\ req.base_info = Some(Err) =>
                      req.response = Some(ErrorResponse(500, "SqlxError"))
    /\ \A id \in MuniIds :
           municipalities[id] = None => \A y \in Years : financial_data[id][y] = None

C25_Witness ==
    \E r \in DOMAIN requests :
        /\ requests[r].muni_id = "NOPE"
        /\ municipalities["NOPE"] = None
        /\ requests[r].base_info = Some(Ok(None))
        /\ requests[r].response = Some(ErrorResponse(404, "NotFound"))
        /\ financial_data["BUF"][fetch_year] = None

(* C26: once a metric value is stored in the cache for a municipality and  *)
(* year, no step replaces it with absent or with a different value, also   *)
(* when requests for the same municipality interleave.                     *)
C26_StoredMetricKept ==
    [][\A id \in MuniIds, y \in Years, m \in Metrics :
           (financial_data[id][y] # None /\ Unwrap(financial_data[id][y])[m] # None) =>
               /\ financial_data'[id][y] # None
               /\ Unwrap(financial_data'[id][y])[m] = Unwrap(financial_data[id][y])[m]]_vars

(* The scoring input made of a row's five metrics and a population *)
RowInput(row, population_opt) ==
    [revenue |-> row.revenue,
     operational_expenditure |-> row.operational_expenditure,
     capital_expenditure |-> row.capital_expenditure,
     debt |-> row.debt,
     audit_outcome |-> row.audit_outcome,
     population |-> IF population_opt = None THEN None
                    ELSE Some(f32_as_u32(Unwrap(population_opt)))]

(* All five scores of a row are present and are those of its own metrics *)
RowScored(row, population_opt) ==
    /\ \A f \in ScoreFields : row[f] # None
    /\ \A f \in ScoreFields : row[f] = ScoresOf(RowInput(row, population_opt))[f]

-----------------------------------------------------------------------------
(* The list endpoint (get_municipalities_list_handler) and the map summary *)
(* query (db/municipalities.rs).  A municipality's name is given by its    *)
(* rank in the collation order of ORDER BY m.name; a geometry text is      *)
(* given by what parsing it yields.                                        *)

MaxLimit == 3

MapMuniIds == {"BUF", "CPT", "JHB"}

MapName(id) == CASE id = "BUF" -> 2 [] id = "CPT" -> 1 [] id = "JHB" -> 3

(* ST_AsGeoJSON(mg.geom)::TEXT: NULL without a geometry row or geometry *)
GeometryTexts == {"{\"type\":\"Point\"}", "{\"type\":\"Feature\"}", "not json"}

(* geojson_str.parse::<geojson::GeoJson>() *)
parse_geojson(geojson_str) ==
    CASE geojson_str = "{\"type\":\"Point\"}" -> Ok([geojson |-> "Geometry", value |-> "Point"])
      [] geojson_str = "{\"type\":\"Feature\"}" -> Ok([geojson |-> "Feature", value |-> "Feature"])
      [] OTHER -> Err

(* lines 162-174: the geometry of a row, None unless the text parses to a  *)
(* GeoJson::Geometry                                                       *)
row_geometry(geometry_geojson_str) ==
    IF geometry_geojson_str = None THEN None
    ELSE LET parsed == parse_geojson(Unwrap(geometry_geojson_str)) IN
         IF parsed.ok /\ parsed.value.geojson = "Geometry"
         THEN Some(parsed.value.value)
         ELSE None

(* the score of the most recent row, scored or not *)
latest_score_of_latest_row(table, id) ==
    LET cached == {y \in Years : table[id][y] # None} IN
    IF cached = {} THEN None
    ELSE Unwrap(table[id][CHOOSE y \in cached : \A z \in cached : z <= y]).overall_score

(* LatestScores with rn = 1: the overall_score of the most recent year     *)
(* among the rows WHERE overall_score IS NOT NULL; NULL by the LEFT JOIN   *)
(* when there is none                                                      *)
latest_score(table, id) ==
    LET scored == {y \in Years : table[id][y] # None
                                   /\ Unwrap(table[id][y]).overall_score # None} IN
    IF scored = {} THEN None
    ELSE Unwrap(table[id][CHOOSE y \in scored : \A z \in scored : z <= y]).overall_score

(* ORDER BY m.name *)
RECURSIVE OrderByName(_)
OrderByName(ids) ==
    IF ids = {} THEN <<>>
    ELSE LET first == CHOOSE id \in ids : \A other \in ids : MapName(id) <= MapName(other) IN
         <<first>> \o OrderByName(ids \ {first})

(* the rows of the query before LIMIT *)
MapQueryRows ==
    LET ids == OrderByName({id \in MapMuniIds : municipalities[id] # None}) IN
    [i \in 1 .. Len(ids) |->
        [id |-> ids[i],
         name |-> MapName(ids[i]),
         population |-> Unwrap(municipalities[ids[i]]).population,
         latest_score |-> latest_score(financial_data, ids[i]),
         geometry_geojson_str |-> municipal_geometries[ids[i]]]]

(* LIMIT $1 with limit.unwrap_or(i64::MAX); a negative LIMIT is an error   *)
(* of the database                                                         *)
MapQueryResult(limit) ==
    IF limit # None /\ Unwrap(limit) < 0 THEN Err
    ELSE LET rows == MapQueryRows
             n == IF limit = None \/ Unwrap(limit) > Len(rows) THEN Len(rows) ELSE Unwrap(limit)
         IN  Ok(SubSeq(rows, 1, n))

(* a feature built for every row, its geometry possibly None *)
map_feature_unfiltered(row) ==
    <<[feature_type |-> "Feature",
       geometry |-> row_geometry(row.geometry_geojson_str),
       properties |-> [id |-> row.id, name |-> row.name, population |-> row.population,
                       latest_score |-> row.latest_score]]>>

(* lines 160-197: the closure of filter_map, as a sequence of 0 or 1 feature *)
map_feature(row) ==
    IF row_geometry(row.geometry_geojson_str) = None THEN <<>>
    ELSE <<[feature_type |-> "Feature",
            geometry |-> row_geometry(row.geometry_geojson_str),
            properties |-> [id |-> row.id, name |-> row.name, population |-> row.population,
                            latest_score |-> row.latest_score]]>>

RECURSIVE filter_map_features(_)
filter_map_features(rows) ==
    IF rows = <<>> THEN <<>>
    ELSE map_feature(Head(rows)) \o filter_map_features(Tail(rows))

(* get_municipalities_summary_for_map *)
get_municipalities_summary_for_map(limit, db_ok) ==
    LET results == IF db_ok THEN MapQueryResult(limit) ELSE Err IN
    IF ~results.ok THEN Err ELSE Ok(filter_map_features(results.value))

(* A cached row with a given overall_score *)
ScoreRow(year, overall_score) ==
    [DefaultFinancialYearData(year) EXCEPT !.overall_score = overall_score]

YearScore(year) == DecFromInt(year - fetch_year + 60)

InitMap ==
    /\ NoCall
    /\ requests = <<>>
    /\ api_response = <<>>
    /\ fetch_results = <<>>
    /\ municipalities = [id \in MapMuniIds |-> Some([id |-> id, population |-> None])]
    /\ municipal_geometries \in [MapMuniIds -> OptionOf(GeometryTexts)]
    /\ \E rows \in [Years -> {"none", "unscored", "scored"}] :
           financial_data = [id \in MapMuniIds |->
               [y \in Years |->
                   IF id = "JHB" THEN None
                   ELSE IF id = "CPT"
                       THEN (IF y = fetch_year THEN Some(ScoreRow(y, Some(DecFromInt(80)))) ELSE None)
                   ELSE CASE rows[y] = "none" -> None
                          [] rows[y] = "unscored" -> Some(ScoreRow(y, None))
                          [] rows[y] = "scored" -> Some(ScoreRow(y, Some(YearScore(y))))]]
    /\ \E limit \in OptionOf(-1 .. MaxLimit) :
           list_request = [limit |-> limit, response |-> None]

(* handlers/municipalities.rs lines 195-213 *)
GetMunicipalitiesList ==
    /\ list_request.response = None
    /\ \E db_ok \in BOOLEAN :
           LET map_features == get_municipalities_summary_for_map(list_request.limit, db_ok) IN
           list_request' = [list_request EXCEPT !.response =
               IF ~map_features.ok
               THEN Some([status |-> 500, collection_type |-> "", features |-> <<>>])
               ELSE Some([status |-> 200, collection_type |-> "FeatureCollection",
                          features |-> map_features.value])]
    /\ UNCHANGED <<scoring_input, result, pc, municipalities, financial_data, requests,
                   municipal_geometries, fetch_vars>>

NextMap == GetMunicipalitiesList

SpecMap == InitMap /\ [][NextMap]_vars

(* The response of a completed list request *)
ListResponse == Unwrap(list_request.response)

Listed200 == list_request.response # None /\ ListResponse.status = 200

FeatureIds == {ListResponse.features[i].properties.id : i \in 1 .. Len(ListResponse.features)}

(* C28: every feature of the list endpoint has type "Feature" and the      *)
(* geometry its municipality's geometry text parses to; a municipality     *)
(* whose geometry is missing or does not parse has no feature; the         *)
(* collection type is "FeatureCollection"; with a limit given, there are   *)
(* no more features than the limit.                                        *)
C28_ListFeatures ==
    Listed200 =>
        /\ ListResponse.collection_type = "FeatureCollection"
        /\ \A i \in 1 .. Len(ListResponse.features) :
               LET feature == ListResponse.features[i]
                   text == municipal_geometries[feature.properties.id] IN
               /\ feature.feature_type = "Feature"
               /\ text # None
               /\ parse_geojson(Unwrap(text)).ok
               /\ parse_geojson(Unwrap(text)).value.geojson = "Geometry"
               /\ feature.geometry = Some(parse_geojson(Unwrap(text)).value.value)
        /\ \A id \in MapMuniIds :
               (municipal_geometries[id] = None
                   \/ ~parse_geojson(Unwrap(municipal_geometries[id])).ok) => id \notin FeatureIds
        /\ list_request.limit # None => Len(ListResponse.features) <= Unwrap(list_request.limit)

C28_Witness ==
    /\ Listed200
    /\ list_request.limit = Some(2)
    /\ municipal_geometries["CPT"] = Some("not json")
    /\ municipal_geometries["JHB"] # None
    /\ FeatureIds = {"BUF"}

(* The years of a municipality's cached rows whose overall_score is not null *)
ScoredYears(id) ==
    {y \in Years : financial_data[id][y] # None
                     /\ Unwrap(financial_data[id][y]).overall_score # None}

(* C29: in the map summary a municipality's financial_score (latest_score) *)
(* is the overall_score of its most recent year among the cached rows with *)
(* a non-null overall_score, and is null only when it has no such row.     *)
C29_LatestNonNullScore ==
    Listed200 =>
        \A i \in 1 .. Len(ListResponse.features) :
            LET properties == ListResponse.features[i].properties IN
            /\ (ScoredYears(properties.id) = {}) <=> (properties.latest_score = None)
            /\ \A y \in ScoredYears(properties.id) :
                   (\A z \in ScoredYears(properties.id) : z <= y)
                       => properties.latest_score
                              = Unwrap(financial_data[properties.id][y]).overall_score

C29_Witness ==
    /\ Listed200
    /\ financial_data["BUF"][fetch_year] = Some(ScoreRow(fetch_year, None))
    /\ ScoredYears("BUF") = {fetch_year - 1}
    /\ \E i \in 1 .. Len(ListResponse.features) :
           /\ ListResponse.features[i].properties.id = "BUF"
           /\ ListResponse.features[i].properties.latest_score = Some(YearScore(fetch_year - 1))

-----------------------------------------------------------------------------
(* The metric fetchers of api/muni_money/financials.rs.  An item code is   *)
(* the sequence of its characters.  Amounts are whole multiples of 10^27,  *)
(* so that the range of Decimal (about 7.9 * 10^28) is within reach: an    *)
(* f64 amount is the number of such units, and so is a Decimal total.      *)

MaxCells == 2

(* the largest whole number of units a Decimal holds: Decimal::MAX is      *)
(* 79228162514264337593543950335                                           *)
DECIMAL_MAX_UNITS == 79

Digits == <<"0", "1", "2", "3", "4", "5", "6", "7", "8", "9">>

DigitString(n) == <<Digits[((n \div 1000) % 10) + 1], Digits[((n \div 100) % 10) + 1],
                    Digits[((n \div 10) % 10) + 1], Digits[(n % 10) + 1]>>

REVENUE_ITEM_CODES == {DigitString(100 * k) : k \in 2 .. 25}

EXPENDITURE_ITEM_CODES == {DigitString(100 * k) : k \in 30 .. 40}

(* item_code.parse::<u32>() *)
RECURSIVE parse_u32_from(_, _)
parse_u32_from(acc, chars) ==
    IF chars = <<>> THEN Some(acc)
    ELSE IF \E d \in 1 .. 10 : Digits[d] = Head(chars)
        THEN parse_u32_from(10 * acc + (CHOOSE d \in 1 .. 10 : Digits[d] = Head(chars)) - 1,
                            Tail(chars))
    ELSE None

parse_u32(item_code) == IF item_code = <<>> THEN None ELSE parse_u32_from(0, item_code)

ItemCodes == {DigitString(200), DigitString(400), DigitString(3000), DigitString(501),
              <<"X", "1", "0", "0">>}

(* the f64 amounts of a cell: 10^27, 4 * 10^28 and 10^30 *)
F64Amounts == {1, 40, 1000}

Cells == [item_code : ItemCodes, amount : OptionOf(F64Amounts)]

(* Decimal::from_f64: None for a value outside the range of Decimal *)
from_f64(amount_f64) ==
    IF Abs(amount_f64) > DECIMAL_MAX_UNITS THEN None ELSE Some(DecFromInt(amount_f64))

(* Decimal's AddAssign panics when the sum is outside the range of Decimal *)
AddAssign(total, amount_decimal) ==
    LET sum == DAdd(total, amount_decimal) IN
    IF Panicked(sum) \/ DGt(sum, DecFromInt(DECIMAL_MAX_UNITS))
                     \/ DLt(sum, DecFromInt(-DECIMAL_MAX_UNITS))
    THEN Panic
    ELSE sum

(* the condition a fetcher puts on a cell's item code *)
item_code_filter(fetcher, item_code) ==
    CASE fetcher = "get_total_revenue" -> item_code \in REVENUE_ITEM_CODES
      [] fetcher = "get_total_expenditure" -> item_code \in EXPENDITURE_ITEM_CODES
      [] fetcher = "get_total_debt" ->
             /\ parse_u32(item_code) # None
             /\ Unwrap(parse_u32(item_code)) >= 310
             /\ Unwrap(parse_u32(item_code)) <= 500
      [] fetcher = "get_capital_expenditure" -> TRUE

(* the loop over response.cells: the running total and facts_found *)
RECURSIVE sum_facts(_, _, _)
sum_facts(fetcher, cells, acc) ==
    IF cells = <<>> \/ Panicked(acc.total) THEN acc
    ELSE LET fact == Head(cells)
             amount_decimal == IF fact.amount = None THEN None
                               ELSE from_f64(Unwrap(fact.amount))
         IN  IF item_code_filter(fetcher, fact.item_code) /\ amount_decimal # None
             THEN sum_facts(fetcher, Tail(cells),
                            [total |-> AddAssign(acc.total, Unwrap(amount_decimal)),
                             facts_found |-> TRUE])
             ELSE sum_facts(fetcher, Tail(cells), acc)

(* a call that unwinds instead of returning *)
Unwound == [ok |-> FALSE, value |-> Some(Panic)]

(* the body shared by the four fetchers, after the upstream call *)
fetch_total(fetcher, response) ==
    IF ~response.ok THEN Err
    ELSE LET acc == sum_facts(fetcher, response.value.cells,
                              [total |-> ZERO, facts_found |-> FALSE]) IN
         IF Panicked(acc.total) THEN Unwound
         ELSE IF acc.facts_found THEN Ok(Some(acc.total))
         ELSE Ok(None)

get_total_revenue(response) == fetch_total("get_total_revenue", response)

get_total_debt(response) == fetch_total("get_total_debt", response)

get_total_expenditure(response) == fetch_total("get_total_expenditure", response)

get_capital_expenditure(response) == fetch_total("get_capital_expenditure", response)

RECURSIVE SeqsUpTo(_, _)
SeqsUpTo(S, n) ==
    IF n = 0 THEN {<<>>}
    ELSE LET shorter == SeqsUpTo(S, n - 1) IN
         shorter \cup {Append(q, x) : q \in shorter, x \in S}

InitFetch ==
    /\ NoCall
    /\ municipalities = <<>>
    /\ financial_data = <<>>
    /\ requests = <<>>
    /\ municipal_geometries = <<>>
    /\ list_request = <<>>
    /\ fetch_results = <<>>
    /\ \E cells \in SeqsUpTo(Cells, MaxCells), upstream_ok \in BOOLEAN :
           api_response = IF upstream_ok THEN Ok([cells |-> cells]) ELSE Err

GetTotalRevenue ==
    /\ fetch_results = <<>>
    /\ fetch_results' = [fetcher |-> "get_total_revenue", returned |-> get_total_revenue(api_response)]
    /\ UNCHANGED <<scoring_input, result, pc, municipalities, financial_data, requests,
                   map_vars, api_response>>

GetTotalDebt ==
    /\ fetch_results = <<>>
    /\ fetch_results' = [fetcher |-> "get_total_debt", returned |-> get_total_debt(api_response)]
    /\ UNCHANGED <<scoring_input, result, pc, municipalities, financial_data, requests,
                   map_vars, api_response>>

GetTotalExpenditure ==
    /\ fetch_results = <<>>
    /\ fetch_results' = [fetcher |-> "get_total_expenditure", returned |-> get_total_expenditure(api_response)]
    /\ UNCHANGED <<scoring_input, result, pc, municipalities, financial_data, requests,
                   map_vars, api_response>>

GetCapitalExpenditure ==
    /\ fetch_results = <<>>
    /\ fetch_results' = [fetcher |-> "get_capital_expenditure", returned |-> get_capital_expenditure(api_response)]
    /\ UNCHANGED <<scoring_input, result, pc, municipalities, financial_data, requests,
                   map_vars, api_response>>

NextFetch ==
    \/ GetTotalRevenue
    \/ GetTotalDebt
    \/ GetTotalExpenditure
    \/ GetCapitalExpenditure

SpecFetch == InitFetch /\ [][NextFetch]_vars

(* The cells of the response that pass the fetcher's filter and carry an amount *)
RECURSIVE AmountsPassing(_, _)
AmountsPassing(fetcher, cells) ==
    IF cells = <<>> THEN <<>>
    ELSE IF item_code_filter(fetcher, Head(cells).item_code) /\ Head(cells).amount # None
        THEN <<Unwrap(Head(cells).amount)>> \o AmountsPassing(fetcher, Tail(cells))
    ELSE AmountsPassing(fetcher, Tail(cells))

RECURSIVE SumOf(_)
SumOf(amounts) == IF amounts = <<>> THEN 0 ELSE Head(amounts) + SumOf(Tail(amounts))

FetchReturned == fetch_results # <<>> /\ api_response.ok

(* C30: given a successful upstream response, a fetcher returns Ok: Ok(None) *)
(* exactly when no cell passing its item-code filter carries an amount,    *)
(* and otherwise Ok(Some(total)) with the sum of the amounts of exactly    *)
(* the cells passing the filter.                                           *)
C30_FetcherTotals ==
    FetchReturned =>
        LET amounts == AmountsPassing(fetch_results.fetcher, api_response.value.cells) IN
        /\ fetch_results.returned.ok
        /\ (fetch_results.returned.value = None) <=> (amounts = <<>>)
        /\ amounts # <<>> => fetch_results.returned.value = Some(DecFromInt(SumOf(amounts)))

=============================================================================
